---- MODULE Spec2Model ----
(***************************************************************************)
(* A model of lib-pihole-go's record codec and reconciliation layer:       *)
(* the host-record and alias-record line parsers, the path-segment         *)
(* encoders, the error classifier, and the List/Get/Create/Delete          *)
(* helpers of localDNS and localCNAME talking to the appliance.            *)
(*                                                                         *)
(* A Go string is modelled as a sequence of one-character strings, so      *)
(* that trimming, splitting, escaping and integer parsing are computed     *)
(* character by character as the library code computes them.               *)
(***************************************************************************)
EXTENDS Integers, Sequences, FiniteSets, TLC

VARIABLES
    input,          \* codec runs: the argument handed to a pure function
    output,         \* codec runs: what the function returned
    helper,         \* which helper the run exercises: "dns" or "cname"
    hosts,          \* the appliance's config.dns.hosts array (raw lines)
    cnameRecords,   \* the appliance's config.dns.cnameRecords array (raw tuples)
    call,           \* the last completed helper call: arguments, requests, result
    created,        \* the last successful CreateRecord/Create: domain and PUT segment
    deleted         \* the Delete that returned no error just before the last call

vars == <<input, output, helper, hosts, cnameRecords, call, created, deleted>>

(***************************************************************************)
(* Bounds of the model.                                                    *)
(***************************************************************************)
MaxFields == 4
MaxTupleFields == 3
MaxLen == 3
MaxList == 3
MaxLines == 2

(***************************************************************************)
(* Go strings package, on sequences of characters.                         *)
(***************************************************************************)
IsSpace(c) == c \in {" ", "\t", "\n", "\r"}

RECURSIVE TrimLeft(_)
TrimLeft(s) ==
    IF s # <<>> /\ IsSpace(Head(s)) THEN TrimLeft(Tail(s)) ELSE s

RECURSIVE TrimRight(_)
TrimRight(s) ==
    IF s # <<>> /\ IsSpace(s[Len(s)])
    THEN TrimRight(SubSeq(s, 1, Len(s) - 1))
    ELSE s

TrimSpace(s) == TrimRight(TrimLeft(s))

\* strings.Index for a one-character separator: 0-based position, -1 if absent.
RECURSIVE IndexFrom(_, _, _)
IndexFrom(s, c, i) ==
    IF i > Len(s) THEN -1
    ELSE IF s[i] = c THEN i - 1
    ELSE IndexFrom(s, c, i + 1)

Index(s, c) == IndexFrom(s, c, 1)

\* strings.Split on a one-character separator: n separators give n+1 fields.
RECURSIVE SplitAcc(_, _, _, _)
SplitAcc(s, sep, cur, acc) ==
    IF s = <<>> THEN Append(acc, cur)
    ELSE IF Head(s) = sep
         THEN SplitAcc(Tail(s), sep, <<>>, Append(acc, cur))
         ELSE SplitAcc(Tail(s), sep, Append(cur, Head(s)), acc)

Split(s, sep) == SplitAcc(s, sep, <<>>, <<>>)

\* strings.Fields: split around runs of white space, no empty fields.
RECURSIVE FieldsAcc(_, _, _)
FieldsAcc(s, cur, acc) ==
    IF s = <<>> THEN (IF cur = <<>> THEN acc ELSE Append(acc, cur))
    ELSE IF IsSpace(Head(s))
         THEN FieldsAcc(Tail(s), <<>>, IF cur = <<>> THEN acc ELSE Append(acc, cur))
         ELSE FieldsAcc(Tail(s), Append(cur, Head(s)), acc)

\* A variant that splits at every single space instead of at runs of white
\* space.
FieldsOnSpaces(s) == Split(s, " ")

Fields(s) == FieldsAcc(s, <<>>, <<>>)

RECURSIVE Join(_, _)
Join(parts, sep) ==
    IF parts = <<>> THEN <<>>
    ELSE IF Len(parts) = 1 THEN parts[1]
    ELSE parts[1] \o sep \o Join(Tail(parts), sep)

(***************************************************************************)
(* strconv.Atoi and strconv.Itoa (base 10).  The inputs of the model have  *)
(* a handful of digits, so the range error of Atoi never arises.           *)
(***************************************************************************)
Digits == <<"0", "1", "2", "3", "4", "5", "6", "7", "8", "9">>

IsDigit(c) == \E d \in 1..10 : Digits[d] = c

DigitVal(c) == (CHOOSE d \in 1..10 : Digits[d] = c) - 1

RECURSIVE ParseUint(_, _)
ParseUint(s, acc) ==
    IF s = <<>> THEN [ok |-> TRUE, val |-> acc]
    ELSE IF IsDigit(Head(s))
         THEN ParseUint(Tail(s), acc * 10 + DigitVal(Head(s)))
         ELSE [ok |-> FALSE, val |-> 0]

Atoi(s) ==
    LET signed == s # <<>> /\ Head(s) \in {"+", "-"}
        body   == IF signed THEN Tail(s) ELSE s
        r      == IF body = <<>> THEN [ok |-> FALSE, val |-> 0]
                  ELSE ParseUint(body, 0)
    IN  IF r.ok
        THEN [ok |-> TRUE, val |-> IF signed /\ Head(s) = "-" THEN 0 - r.val ELSE r.val]
        ELSE [ok |-> FALSE, val |-> 0]

RECURSIVE UintText(_)
UintText(n) ==
    IF n < 10 THEN <<Digits[n + 1]>>
    ELSE UintText(n \div 10) \o <<Digits[(n % 10) + 1]>>

Itoa(n) == IF n < 0 THEN <<"-">> \o UintText(0 - n) ELSE UintText(n)

(***************************************************************************)
(* Go error values.  An error is a record; fmt.Errorf with %w keeps the    *)
(* wrapped error, and errors.Is walks the chain.                           *)
(***************************************************************************)
Nil == [type |-> "nil"]

Errorf(format, arg, wrapped) ==
    [type |-> "fmt", format |-> format, arg |-> arg, wraps |-> wrapped]

ErrorLocalDNSNotFound == [type |-> "sentinel", text |-> "local dns record not found"]

ErrorLocalCNAMENotFound == [type |-> "sentinel", text |-> "local CNAME record not found"]

RECURSIVE Is(_, _)
Is(err, target) ==
    \/ err = target
    \/ /\ err.type = "fmt"
       /\ Is(err.wraps, target)

(***************************************************************************)
(* Host records (local_dns.go).                                            *)
(***************************************************************************)
DNSRecord(ip, domain, ttl, hasTTL, comment, raw) ==
    [IP |-> ip, Domain |-> domain, TTL |-> ttl, HasTTL |-> hasTTL,
     Comment |-> comment, raw |-> raw]

\* A variant that forgets to trim the joined comment.
AppendCommentUntrimmed(comment, extraParts) ==
    Join(<<comment, Join(extraParts, <<" ">>)>>, <<" ">>)

\* The comment after the TTL decision: the hash comment and the extra
\* fields joined by one space, trimmed.
AppendComment(comment, extraParts) ==
    TrimSpace(Join(<<comment, Join(extraParts, <<" ">>)>>, <<" ">>))

\* Lines 88-110: the fields of the line before the '#', with the comment the
\* '#' introduced.
parseDNSFields(raw, comment, parts) ==
    LET ttl == Atoi(parts[3])
    IN  IF Len(parts) < 2
        THEN [rec |-> DNSRecord(<<>>, <<>>, 0, FALSE, comment, raw),
              err |-> Errorf("invalid DNS record: %q", raw, Nil)]
        ELSE IF Len(parts) >= 3 /\ ttl.ok
        THEN [rec |-> DNSRecord(parts[1], parts[2], ttl.val, TRUE,
                                IF Len(parts) > 3
                                THEN AppendComment(comment, SubSeq(parts, 4, Len(parts)))
                                ELSE comment,
                                raw),
              err |-> Nil]
        ELSE IF Len(parts) >= 3
        THEN [rec |-> DNSRecord(parts[1], parts[2], 0, FALSE,
                                AppendComment(comment, SubSeq(parts, 3, Len(parts))),
                                raw),
              err |-> Nil]
        ELSE [rec |-> DNSRecord(parts[1], parts[2], 0, FALSE, comment, raw),
              err |-> Nil]

\* Lines 82-88: the line is cut at its first '#', if it has one.
parseDNSComment(raw, line, commentIdx) ==
    parseDNSFields(raw,
                   IF commentIdx >= 0
                   THEN TrimSpace(SubSeq(line, commentIdx + 2, Len(line)))
                   ELSE <<>>,
                   Fields(IF commentIdx >= 0
                          THEN TrimSpace(SubSeq(line, 1, commentIdx))
                          ELSE line))

\* Lines 78-82: an empty line is refused.
parseDNSLine(raw, line) ==
    IF line = <<>>
    THEN [rec |-> DNSRecord(<<>>, <<>>, 0, FALSE, <<>>, raw),
          err |-> Errorf("invalid DNS record: %q", raw, Nil)]
    ELSE parseDNSComment(raw, line, Index(line, "#"))

parseDNSRecord(raw) == parseDNSLine(raw, TrimSpace(raw))

(***************************************************************************)
(* Alias records (local_cname.go).                                         *)
(***************************************************************************)
CNAMERecord(domain, target, ttl, hasTTL, raw) ==
    [Domain |-> domain, Target |-> target, TTL |-> ttl, HasTTL |-> hasTTL,
     raw |-> raw]

ZeroCNAMERecord == CNAMERecord(<<>>, <<>>, 0, FALSE, <<>>)

\* A variant that, like the host parser, takes a non-numeric third field for
\* no TTL instead of failing.
cnameTTLLenient(ttlStr) ==
    LET ttl == Atoi(ttlStr)
    IN  [ok |-> TRUE, has |-> ttl.ok, val |-> ttl.val, text |-> ttlStr]

\* The trimmed third field (lines 89-97): has is TRUE when a TTL was given,
\* ok is FALSE when the field is non-empty and not an integer.
cnameTTL(ttlStr) ==
    LET ttl == Atoi(ttlStr)
    IN  IF ttlStr = <<>> THEN [ok |-> TRUE, has |-> FALSE, val |-> 0, text |-> ttlStr]
        ELSE IF ttl.ok THEN [ok |-> TRUE, has |-> TRUE, val |-> ttl.val, text |-> ttlStr]
        ELSE [ok |-> FALSE, has |-> FALSE, val |-> 0, text |-> ttlStr]

\* Lines 81-99: the record of a tuple of two or three fields.
parseCNAMETTL(raw, entry, ttl) ==
    IF ~ttl.ok
    THEN [rec |-> ZeroCNAMERecord,
          err |-> Errorf("invalid TTL in CNAME record %q: %w", raw,
                         [type |-> "strconv", num |-> ttl.text])]
    ELSE [rec |-> CNAMERecord(TrimSpace(entry[1]), TrimSpace(entry[2]),
                              ttl.val, ttl.has, TrimSpace(raw)),
          err |-> Nil]

\* Lines 77-87: the number of fields, and the third field if there is one.
parseCNAMEFields(raw, entry) ==
    IF Len(entry) < 2 \/ Len(entry) > 3
    THEN [rec |-> ZeroCNAMERecord,
          err |-> Errorf("invalid CNAME record: %q", raw, Nil)]
    ELSE parseCNAMETTL(raw, entry,
                       IF Len(entry) = 3 THEN cnameTTL(TrimSpace(entry[3]))
                       ELSE [ok |-> TRUE, has |-> FALSE, val |-> 0, text |-> <<>>])

parseCNAMERecord(raw) == parseCNAMEFields(raw, Split(raw, ","))

(***************************************************************************)
(* List decoding: toDNSRecordList / toCNAMERecordList.  The loop returns   *)
(* (nil, err) at the first line that fails to parse.                       *)
(***************************************************************************)
RECURSIVE DNSListLoop(_, _), DNSListAppend(_, _, _)
DNSListLoop(entries, list) ==
    IF entries = <<>> THEN [list |-> list, err |-> Nil]
    ELSE DNSListAppend(entries, list, parseDNSRecord(Head(entries)))

\* The body of the loop, once the entry is parsed.
DNSListAppend(entries, list, r) ==
    IF r.err # Nil THEN [list |-> <<>>, err |-> r.err]
    ELSE DNSListLoop(Tail(entries), Append(list, r.rec))

\* A variant that skips the lines that fail to parse and keeps the rest.
RECURSIVE DNSListSkipping(_, _)
DNSListSkipping(entries, list) ==
    IF entries = <<>> THEN [list |-> list, err |-> Nil]
    ELSE LET r == parseDNSRecord(Head(entries))
         IN  DNSListSkipping(Tail(entries),
                             IF r.err # Nil THEN list ELSE Append(list, r.rec))

toDNSRecordListPartial(entries) == DNSListSkipping(entries, <<>>)

toDNSRecordList(entries) == DNSListLoop(entries, <<>>)

RECURSIVE CNAMEListLoop(_, _), CNAMEListAppend(_, _, _)
CNAMEListLoop(entries, list) ==
    IF entries = <<>> THEN [list |-> list, err |-> Nil]
    ELSE CNAMEListAppend(entries, list, parseCNAMERecord(Head(entries)))

\* The body of the loop, once the entry is parsed.
CNAMEListAppend(entries, list, r) ==
    IF r.err # Nil THEN [list |-> <<>>, err |-> r.err]
    ELSE CNAMEListLoop(Tail(entries), Append(list, r.rec))

toCNAMERecordList(entries) == CNAMEListLoop(entries, <<>>)

(***************************************************************************)
(* JSON (encoding/json) for the error envelope.  A body is a sequence of   *)
(* JSON tokens; lexing is not modelled.  Unmarshal first requires the      *)
(* whole body to be one valid JSON value, then stores it into              *)
(* apiErrorPayload the way encoding/json does: a null leaves a string      *)
(* field alone and clears a pointer, a value of the wrong JSON type is an  *)
(* UnmarshalTypeError, unknown keys are skipped.                           *)
(***************************************************************************)
P(x) == [k |-> "p", v |-> x]
S(x) == [k |-> "s", v |-> x]
N(x) == [k |-> "n", v |-> x]
L(x) == [k |-> "lit", v |-> x]

JNull == [t |-> "null"]
JBool(b) == [t |-> "bool", v |-> b]
JStr(s) == [t |-> "str", v |-> s]
JNum(n) == [t |-> "num", v |-> n]
JObj(members) == [t |-> "obj", m |-> members]
JArr(items) == [t |-> "arr", m |-> items]
Member(key, val) == [key |-> key, val |-> val]

ParseFail == [ok |-> FALSE, val |-> JNull, rest |-> <<>>]

RECURSIVE ParseValue(_), ParseMembers(_, _), ParseMember(_, _, _),
          ParseItems(_, _), ParseItem(_, _)
ParseValue(ts) ==
    IF ts = <<>> THEN ParseFail
    ELSE IF Head(ts).k = "s" THEN [ok |-> TRUE, val |-> JStr(Head(ts).v), rest |-> Tail(ts)]
    ELSE IF Head(ts).k = "n" THEN [ok |-> TRUE, val |-> JNum(Head(ts).v), rest |-> Tail(ts)]
    ELSE IF Head(ts).k = "lit"
         THEN [ok |-> TRUE,
               val |-> IF Head(ts).v = "null" THEN JNull ELSE JBool(Head(ts).v),
               rest |-> Tail(ts)]
    ELSE IF Head(ts) = P("{")
         THEN IF Len(ts) >= 2 /\ ts[2] = P("}")
              THEN [ok |-> TRUE, val |-> JObj(<<>>), rest |-> Tail(Tail(ts))]
              ELSE ParseMembers(Tail(ts), <<>>)
    ELSE IF Head(ts) = P("[")
         THEN IF Len(ts) >= 2 /\ ts[2] = P("]")
              THEN [ok |-> TRUE, val |-> JArr(<<>>), rest |-> Tail(Tail(ts))]
              ELSE ParseItems(Tail(ts), <<>>)
    ELSE ParseFail

\* After "{" or ",": a string key, ":", a value, then "," or "}".
ParseMembers(ts, acc) ==
    IF Len(ts) < 3 \/ ts[1].k # "s" \/ ts[2] # P(":") THEN ParseFail
    ELSE ParseMember(ts[1].v, acc, ParseValue(Tail(Tail(ts))))

\* The member whose value was just read.
ParseMember(key, acc, v) ==
    IF ~v.ok \/ v.rest = <<>> THEN ParseFail
    ELSE IF Head(v.rest) = P("}")
    THEN [ok |-> TRUE, val |-> JObj(Append(acc, Member(key, v.val))), rest |-> Tail(v.rest)]
    ELSE IF Head(v.rest) = P(",")
    THEN ParseMembers(Tail(v.rest), Append(acc, Member(key, v.val)))
    ELSE ParseFail

ParseItems(ts, acc) == ParseItem(acc, ParseValue(ts))

\* The array item that was just read.
ParseItem(acc, v) ==
    IF ~v.ok \/ v.rest = <<>> THEN ParseFail
    ELSE IF Head(v.rest) = P("]")
    THEN [ok |-> TRUE, val |-> JArr(Append(acc, v.val)), rest |-> Tail(v.rest)]
    ELSE IF Head(v.rest) = P(",")
    THEN ParseItems(Tail(v.rest), Append(acc, v.val))
    ELSE ParseFail

\* encoding/json matches an object key to a struct field exactly or, failing
\* that, ignoring case.
FieldOf(key) ==
    CASE key \in {"error", "Error", "ERROR"} -> "error"
      [] key \in {"key", "Key"} -> "key"
      [] key \in {"message", "Message"} -> "message"
      [] key \in {"hint", "Hint"} -> "hint"
      [] OTHER -> "-"

\* apiErrorDetails; ptr is FALSE for a nil *apiErrorDetails.
NoDetails == [ptr |-> FALSE, Key |-> "", Message |-> "", Hint |-> JNull]

ZeroDetails == [ptr |-> TRUE, Key |-> "", Message |-> "", Hint |-> JNull]

\* One member of the error object stored into *apiErrorDetails.
StoreDetail(st, mem) ==
    LET f == FieldOf(mem.key)
        d == st.details
    IN  IF f = "key"
        THEN IF mem.val.t = "str" THEN [st EXCEPT !.details = [d EXCEPT !.Key = mem.val.v]]
             ELSE IF mem.val.t = "null" THEN st
             ELSE [st EXCEPT !.typeErr = TRUE]
        ELSE IF f = "message"
        THEN IF mem.val.t = "str" THEN [st EXCEPT !.details = [d EXCEPT !.Message = mem.val.v]]
             ELSE IF mem.val.t = "null" THEN st
             ELSE [st EXCEPT !.typeErr = TRUE]
        ELSE IF f = "hint"
        THEN [st EXCEPT !.details = [d EXCEPT !.Hint = mem.val]]
        ELSE st

RECURSIVE StoreDetails(_, _)
StoreDetails(st, members) ==
    IF members = <<>> THEN st
    ELSE StoreDetails(StoreDetail(st, Head(members)), Tail(members))

\* One member of the envelope stored into apiErrorPayload.
StoreEnvelope(st, mem) ==
    IF FieldOf(mem.key) # "error" THEN st
    ELSE IF mem.val.t = "null" THEN [st EXCEPT !.details = NoDetails]
    ELSE IF mem.val.t = "obj"
         THEN StoreDetails([st EXCEPT !.details = IF st.details.ptr THEN st.details
                                                   ELSE ZeroDetails],
                           mem.val.m)
    ELSE [st EXCEPT !.typeErr = TRUE]

RECURSIVE StoreEnvelopeAll(_, _)
StoreEnvelopeAll(st, members) ==
    IF members = <<>> THEN st
    ELSE StoreEnvelopeAll(StoreEnvelope(st, Head(members)), Tail(members))

\* The parsed value stored into a zero apiErrorPayload.
StorePayload(p) ==
    IF ~p.ok \/ p.rest # <<>> THEN [err |-> TRUE, payload |-> NoDetails]
    ELSE IF p.val.t = "null" THEN [err |-> FALSE, payload |-> NoDetails]
    ELSE IF p.val.t = "obj"
         THEN LET r == StoreEnvelopeAll([details |-> NoDetails, typeErr |-> FALSE],
                                        p.val.m)
              IN  [err |-> r.typeErr, payload |-> r.details]
    ELSE [err |-> TRUE, payload |-> NoDetails]

\* json.Unmarshal(body, &payload): err is TRUE for a syntax or type error.
Unmarshal(body) == StorePayload(ParseValue(body))

(***************************************************************************)
(* The error classifier (api_errors.go).                                   *)
(***************************************************************************)
\* A variant that ignores the error of json.Unmarshal and uses whatever was
\* stored before it.
payloadErrorIgnoringDecodeError(u) ==
    IF ~u.payload.ptr THEN [details |-> NoDetails, err |-> TRUE]
    ELSE [details |-> u.payload, err |-> FALSE]

\* Lines 24-32: what parseAPIError makes of the result of json.Unmarshal.
payloadError(u) ==
    IF u.err THEN [details |-> NoDetails, err |-> TRUE]
    ELSE IF ~u.payload.ptr THEN [details |-> NoDetails, err |-> TRUE]
    ELSE [details |-> u.payload, err |-> FALSE]

parseAPIError(body) ==
    IF Len(body) = 0 THEN [details |-> NoDetails, err |-> TRUE]
    ELSE payloadError(Unmarshal(body))

APIError(type, status, details) ==
    [type |-> type, StatusCode |-> status, Key |-> details.Key,
     Message |-> details.Message, Hint |-> details.Hint]

UnexpectedStatus(status, body) ==
    [type |-> "status", format |-> "received unexpected status code %d %s",
     StatusCode |-> status, body |-> body]

\* The typed error when parseAPIError gave details, else the generic one.
apiErrorOr(type, status, body, r) ==
    IF ~r.err THEN APIError(type, status, r.details)
    ELSE UnexpectedStatus(status, body)

newDNSAPIError(status, body) ==
    apiErrorOr("DNSAPIError", status, body, parseAPIError(body))

newCNAMEAPIError(status, body) ==
    apiErrorOr("CNAMEAPIError", status, body, parseAPIError(body))

(***************************************************************************)
(* net/url PathEscape and strings.EqualFold, for the characters the model  *)
(* uses.                                                                   *)
(***************************************************************************)
Lowers == <<"a", "b", "c", "d", "e", "f", "g", "h", "i", "j", "k", "l", "m",
            "n", "o", "p", "q", "r", "s", "t", "u", "v", "w", "x", "y", "z">>

Uppers == <<"A", "B", "C", "D", "E", "F", "G", "H", "I", "J", "K", "L", "M",
            "N", "O", "P", "Q", "R", "S", "T", "U", "V", "W", "X", "Y", "Z">>

IsLower(c) == \E i \in 1..26 : Lowers[i] = c

IsUpper(c) == \E i \in 1..26 : Uppers[i] = c

ToLower(c) == IF IsUpper(c) THEN Lowers[CHOOSE i \in 1..26 : Uppers[i] = c] ELSE c

\* A variant that compares exactly, letter case included.
EqualExact(s, t) == s = t

RECURSIVE EqualFold(_, _)
EqualFold(s, t) ==
    IF s = <<>> \/ t = <<>> THEN s = t
    ELSE ToLower(Head(s)) = ToLower(Head(t)) /\ EqualFold(Tail(s), Tail(t))

\* url.shouldEscape in encodePathSegment mode: letters, digits, the marks
\* - _ . ~ and the reserved $ & + : = @ stay; / ; , ? and the rest are escaped.
shouldEscape(c) ==
    ~ \/ IsLower(c) \/ IsUpper(c) \/ IsDigit(c)
      \/ c \in {"-", "_", ".", "~"}
      \/ c \in {"$", "&", "+", ":", "=", "@"}

\* The two upper-case hex digits of the character's byte.
HexByte(c) ==
    CASE c = " " -> <<"2", "0">>
      [] c = "\t" -> <<"0", "9">>
      [] c = "\n" -> <<"0", "A">>
      [] c = "\r" -> <<"0", "D">>
      [] c = "!" -> <<"2", "1">>
      [] c = "#" -> <<"2", "3">>
      [] c = "%" -> <<"2", "5">>
      [] c = "," -> <<"2", "C">>
      [] c = "/" -> <<"2", "F">>
      [] c = ";" -> <<"3", "B">>
      [] c = "?" -> <<"3", "F">>

Escapable == {" ", "\t", "\n", "\r", "!", "#", "%", ",", "/", ";", "?"}

RECURSIVE PathEscape(_)
PathEscape(s) ==
    IF s = <<>> THEN <<>>
    ELSE IF shouldEscape(Head(s))
         THEN <<"%">> \o HexByte(Head(s)) \o PathEscape(Tail(s))
         ELSE <<Head(s)>> \o PathEscape(Tail(s))

\* strings.ReplaceAll(s, ",", "%2C")
RECURSIVE ReplaceCommas(_)
ReplaceCommas(s) ==
    IF s = <<>> THEN <<>>
    ELSE IF Head(s) = "," THEN <<"%", "2", "C">> \o ReplaceCommas(Tail(s))
    ELSE <<Head(s)>> \o ReplaceCommas(Tail(s))

escapeCNAMEValue(value) == ReplaceCommas(PathEscape(value))

\* A variant of the encoder that leaves the TTL out of a tuple it builds.
encodeCNAMERecordNoTTL(record) ==
    IF record.raw # <<>> /\ record.Domain # <<>>
    THEN escapeCNAMEValue(record.raw)
    ELSE escapeCNAMEValue(
            Join(<<TrimSpace(record.Domain), TrimSpace(record.Target)>>, <<",">>))

encodeCNAMERecord(record) ==
    IF record.raw # <<>> /\ record.Domain # <<>>
    THEN escapeCNAMEValue(record.raw)
    ELSE escapeCNAMEValue(
            Join(<<TrimSpace(record.Domain), TrimSpace(record.Target)>>
                 \o (IF record.HasTTL THEN <<Itoa(record.TTL)>> ELSE <<>>),
                 <<",">>))

\* The value both host mutations put in the path (local_dns.go 136 and 184).
dnsValue(IP, domain) == IP \o <<"%", "2", "0">> \o domain

(***************************************************************************)
(* The appliance and the transport, as the helpers see them: a request     *)
(* gets a transport error or a response; the appliance keeps the two       *)
(* arrays, decodes the percent-escapes of a path segment, adds the line on *)
(* an accepted PUT and removes it on an accepted DELETE.                   *)
(***************************************************************************)
HostsPath == "/api/config/dns/hosts"

CNAMEPath == "/api/config/dns/cnameRecords"

StatusCreated == 201

StatusNoContent == 204

Request(method, path, seg) == [method |-> method, path |-> path, seg |-> seg]

TransportError == [type |-> "transport", text |-> "connection refused"]

\* The error of json.Decoder.Decode on a body that is not JSON.
DecodeError == [type |-> "json", text |-> "invalid character"]

RECURSIVE Unescape(_)
Unescape(seg) ==
    IF seg = <<>> THEN <<>>
    ELSE IF /\ Head(seg) = "%"
            /\ Len(seg) >= 3
            /\ \E c \in Escapable : HexByte(c) = <<seg[2], seg[3]>>
         THEN <<CHOOSE c \in Escapable : HexByte(c) = <<seg[2], seg[3]>>>>
              \o Unescape(Tail(Tail(Tail(seg))))
         ELSE <<Head(seg)>> \o Unescape(Tail(seg))

Holds(store, line) == \E i \in 1..Len(store) : store[i] = line

Without(store, line) == SelectSeq(store, LAMBDA l : l # line)

Failed == [err |-> TRUE, status |-> 0, body |-> <<>>]

Answer(status, body) == [err |-> FALSE, status |-> status, body |-> body]

EnvelopeOf(key, message) ==
    <<P("{"), S("error"), P(":"), P("{"), S("key"), P(":"), S(key), P(","),
      S("message"), P(":"), S(message), P(","), S("hint"), P(":"), L("null"),
      P("}"), P("}")>>

\* GET of a collection: a transport failure, a body that is not the JSON
\* document of the collection, or the array.
ListResponses(store) ==
    {[err |-> TRUE, decodes |-> FALSE, lines |-> <<>>],
     [err |-> FALSE, decodes |-> FALSE, lines |-> <<>>],
     [err |-> FALSE, decodes |-> TRUE, lines |-> store]}

\* PUT: the appliance accepts a line it does not hold yet, while it has room;
\* it may also refuse, or the transport may fail.
PutResponses(store, seg) ==
    {Failed, Answer(200, <<>>), Answer(400, EnvelopeOf("bad_request", "duplicate"))}
    \cup (IF ~Holds(store, Unescape(seg)) /\ Len(store) < MaxLines
          THEN {Answer(StatusCreated, <<>>)} ELSE {})

\* DELETE: the appliance removes the line the segment names, if it holds it;
\* it may also refuse, or the transport may fail.
DeleteResponses(store, seg) ==
    {Failed, Answer(200, <<>>), Answer(404, EnvelopeOf("not_found", "missing"))}
    \cup (IF Holds(store, Unescape(seg)) THEN {Answer(StatusNoContent, <<>>)} ELSE {})

(***************************************************************************)
(* The helpers of localDNS (local_dns.go).                                 *)
(***************************************************************************)
NoRecord == [nil |-> TRUE]

\* List, once the body is decoded (local_dns.go 126-131).
dnsListDecoded(r) ==
    IF r.err # Nil
    THEN [list |-> <<>>,
          err |-> Errorf("failed to parse customDNS list body: %w", <<>>, r.err)]
    ELSE r

dnsList(resp) ==
    IF resp.err THEN [list |-> <<>>, err |-> TransportError]
    ELSE IF ~resp.decodes
    THEN [list |-> <<>>,
          err |-> Errorf("failed to parse customDNS list body: %w", <<>>, DecodeError)]
    ELSE dnsListDecoded(toDNSRecordList(resp.lines))

\* The loop of Get (local_dns.go 164-170, local_cname.go 156-162): the first
\* record whose Domain matches, or the not-found error carrying the domain.
RECURSIVE FirstMatch(_, _, _)
FirstMatch(records, domain, notFound) ==
    IF records = <<>>
    THEN [rec |-> NoRecord, err |-> Errorf("%w: %s", domain, notFound)]
    ELSE IF EqualFold(Head(records).Domain, domain)
    THEN [rec |-> Head(records), err |-> Nil]
    ELSE FirstMatch(Tail(records), domain, notFound)

\* Get, once List has returned.
dnsGetFrom(l, domain) ==
    IF l.err # Nil
    THEN [rec |-> NoRecord,
          err |-> Errorf("failed to fetch custom DNS records: %w", <<>>, l.err)]
    ELSE FirstMatch(l.list, domain, ErrorLocalDNSNotFound)

dnsGet(resp, domain) == dnsGetFrom(dnsList(resp), domain)

\* A variant of Create's status test that takes every 2xx for success.
createdAny2xx(status) == status >= 200 /\ status < 300

\* Create's status test (local_dns.go 145, local_cname.go 141).
created201(status) == status = StatusCreated

\* A variant of Delete's lookup handling that takes every failed lookup for
\* an absent record.
lookupErrorLenient(err, notFound, format, domain) == Nil

\* A variant of Delete's lookup handling that reports a missing record.
lookupErrorStrict(err, notFound, format, domain) == Errorf(format, domain, err)

\* What Delete returns when its lookup failed (local_dns.go 176-182,
\* local_cname.go 168-173).
lookupError(err, notFound, format, domain) ==
    IF Is(err, notFound) THEN Nil ELSE Errorf(format, domain, err)

(***************************************************************************)
(* Codec runs: Init draws one argument for one pure function, and the      *)
(* function's action applies it.                                           *)
(***************************************************************************)
\* All strings over alphabet A of length at most n.
Strings(A, n) == UNION {[1..k -> A] : k \in 0..n}

\* All sequences over E of length at most n.
SeqsUpTo(E, n) == UNION {[1..k -> E] : k \in 0..n}

RECURSIVE Flatten(_)
Flatten(ss) == IF ss = <<>> THEN <<>> ELSE Head(ss) \o Flatten(Tail(ss))

\* Host lines: every short string over HostAlphabet, and longer lines laid
\* out as fields, separators and an optional '#' part.
HostAlphabet == {"a", "1", " ", "\t", "#"}

HostWords == {<<"a">>, <<"1", "0">>, <<"+", "2">>, <<"1", "a">>}

HostLayouts ==
    {[lead |-> <<>>, sep |-> <<" ">>, trail |-> <<>>],
     [lead |-> <<" ">>, sep |-> <<" ", " ", " ">>, trail |-> <<" ", "\t">>],
     [lead |-> <<>>, sep |-> <<"\t">>, trail |-> <<>>]}

HashParts ==
    {<<>>, <<"#", "c">>, <<" ", "#", " ", "c", " ", " ", "d", "#", "e", " ">>}

HostLine(fields, layout, hash) ==
    layout.lead \o Join(fields, layout.sep) \o layout.trail \o hash

\* Lines whose fields hold a '%': the appliance stores text, not escapes.
PercentLines ==
    {<<"1", " ", "a", "%", "2", "0", "b">>, <<"1", " ", " ", "a", "%", "2", "3">>,
     <<"%", "2", "5", "\t", "a">>}

HostLines ==
    Strings(HostAlphabet, MaxLen)
    \cup {HostLine(f, l, h) : f \in SeqsUpTo(HostWords, MaxFields),
                              l \in HostLayouts, h \in HashParts}
    \cup PercentLines

\* Alias tuples: every short string over TupleAlphabet, and longer tuples
\* of comma-joined fields.
TupleAlphabet == {"a", "7", " ", ",", "-"}

TupleWords ==
    {<<"a">>, <<" ", "b", " ">>, <<>>, <<" ">>, <<"7", "2">>, <<" ", "-", "1", " ">>,
     <<"x", "1">>, <<"1", " ", "2">>}

Tuples ==
    Strings(TupleAlphabet, MaxLen)
    \cup {Join(f, <<",">>) : f \in SeqsUpTo(TupleWords, MaxTupleFields)}

\* Collections handed to the list decoders.
ListHostLines ==
    {<<"1", " ", "a">>, <<"2", " ", " ", "B", " ", "6", "0", " ", "#", "c">>,
     <<"1">>, <<" ", "#", "x">>}

ListTuples ==
    {<<"a", ",", "t">>, <<"B", " ", ",", " ", "t", " ", ",", " ", "6", "0">>,
     <<"a">>, <<"a", ",", "t", ",", "x">>}

\* Error bodies.  A case pairs a body with what its envelope holds: present
\* is TRUE when the body decodes into the envelope shape with a non-null
\* error object, and Key, Message, Hint are then that object's fields.
KeyTokens(name, v) ==
    IF v = "absent" THEN <<>>
    ELSE <<<<S(name), P(":"), IF v = "null" THEN L("null") ELSE S(v)>>>>

HintValues ==
    {[tokens |-> <<>>, absent |-> TRUE, val |-> JNull],
     [tokens |-> <<L("null")>>, absent |-> FALSE, val |-> JNull],
     [tokens |-> <<S("retry later")>>, absent |-> FALSE, val |-> JStr("retry later")],
     [tokens |-> <<P("{"), S("item"), P(":"), N("3"), P("}")>>, absent |-> FALSE,
      val |-> JObj(<<Member("item", JNum("3"))>>)],
     [tokens |-> <<P("["), S("a"), P(","), L("true"), P("]")>>, absent |-> FALSE,
      val |-> JArr(<<JStr("a"), JBool("true")>>)]}

HintTokens(h) ==
    IF h.absent THEN <<>> ELSE <<<<S("hint"), P(":")>> \o h.tokens>>

EnvelopeBody(k, m, h) ==
    <<P("{"), S("error"), P(":"), P("{")>>
    \o Join(KeyTokens("key", k) \o KeyTokens("message", m) \o HintTokens(h), <<P(",")>>)
    \o <<P("}"), P("}")>>

Held(k, m, h) ==
    [present |-> TRUE,
     Key |-> IF k \in {"absent", "null"} THEN "" ELSE k,
     Message |-> IF m \in {"absent", "null"} THEN "" ELSE m,
     Hint |-> h.val]

NotHeld == [present |-> FALSE, Key |-> "", Message |-> "", Hint |-> JNull]

EnvelopeCases ==
    {[body |-> EnvelopeBody(k, m, h), holds |-> Held(k, m, h)] :
        k \in {"absent", "null", "bad_request", ""},
        m \in {"absent", "null", "duplicate"},
        h \in HintValues}

OtherBodies ==
    {<<>>,
     <<L("null")>>,
     <<P("{"), P("}")>>,
     <<P("["), P("]")>>,
     <<S("not found")>>,
     <<N("404")>>,
     <<P("{"), S("error"), P(":"), L("null"), P("}")>>,
     <<P("{"), S("error"), P(":"), S("duplicate"), P("}")>>,
     <<P("{"), S("error"), P(":"), P("["), P("]"), P("}")>>,
     <<P("{"), S("took"), P(":"), N("1"), P("}")>>,
     <<P("{"), S("error"), P(":"), P("{"), S("key"), P(":"), N("5"), P("}"), P("}")>>,
     <<P("{"), S("error"), P(":"), P("{"), S("message"), P(":"), P("{"), P("}"), P("}"), P("}")>>,
     <<P("{"), S("error"), P(":"), P("{"), S("key"), P(":"), S("k"), P("}")>>,
     <<P("{"), S("error"), P(":"), P("{"), S("key"), P(":"), S("k"), P("}"), P("}"), P("}")>>,
     <<P("{"), S("error"), P(":"), P("{"), S("key"), S("k"), P("}"), P("}")>>,
     <<P("{"), S("error"), P(":"), P("{"), S("key"), P(":"), S("k"), P(","), P("}"), P("}")>>,
     <<P("<"), S("html"), P(">")>>}

\* Records handed to the alias encoder: every record the parser returns for
\* a tuple, and records built by a caller, which carry no raw tuple.
BuiltNames == {<<>>, <<"a">>, <<" ", "a", " ">>, <<"a", " ", "b">>, <<"a", ",", "b">>}

BuiltTTLs == {0, 60, 0 - 5}

EncoderRecords ==
    {parseCNAMERecord(t).rec : t \in {u \in Tuples : parseCNAMERecord(u).err = Nil}}
    \cup {CNAMERecord(d, t, ttl, has, <<>>) :
            d \in BuiltNames, t \in BuiltNames, ttl \in BuiltTTLs, has \in BOOLEAN}

\* The IP and domain arguments of the host Create.
ValueAlphabet == {"a", ".", " ", "/", "+", "%"}

ValueIPs == {<<"1">>, <<"1", ":", ":">>}

BodyCases == EnvelopeCases \cup {[body |-> b, holds |-> NotHeld] : b \in OtherBodies}

Statuses == {200, 204, 400, 404, 500}

NoOutput == [tag |-> "none"]

Done(val) == [tag |-> "done", val |-> val]

CodecInputs ==
    {[fn |-> "parseDNSRecord", raw |-> l] : l \in HostLines}
    \cup {[fn |-> "parseCNAMERecord", raw |-> t] : t \in Tuples}
    \cup {[fn |-> "toDNSRecordList", entries |-> e] : e \in SeqsUpTo(ListHostLines, MaxList)}
    \cup {[fn |-> "toCNAMERecordList", entries |-> e] : e \in SeqsUpTo(ListTuples, MaxList)}
    \cup {[fn |-> f, status |-> st, body |-> c.body, holds |-> c.holds] :
            f \in {"newDNSAPIError", "newCNAMEAPIError"}, st \in Statuses, c \in BodyCases}
    \cup {[fn |-> "encodeCNAMERecord", record |-> r] : r \in EncoderRecords}
    \cup {[fn |-> "dnsValue", IP |-> ip, domain |-> d] :
            ip \in ValueIPs, d \in Strings(ValueAlphabet, MaxLen)}

NoCall == [op |-> "none"]

NoCreated == [set |-> FALSE]

NoDeleted == [set |-> FALSE]

InitCodec ==
    /\ input \in CodecInputs
    /\ output = NoOutput
    /\ helper = "none"
    /\ hosts = <<>>
    /\ cnameRecords = <<>>
    /\ call = NoCall
    /\ created = NoCreated
    /\ deleted = NoDeleted

Apply(fn, result) ==
    /\ input.fn = fn
    /\ output = NoOutput
    /\ output' = Done(result)
    /\ UNCHANGED <<input, helper, hosts, cnameRecords, call, created, deleted>>

ParseDNS == Apply("parseDNSRecord", parseDNSRecord(input.raw))

ParseCNAME == Apply("parseCNAMERecord", parseCNAMERecord(input.raw))

DecodeDNSList == Apply("toDNSRecordList", toDNSRecordList(input.entries))

DecodeCNAMEList == Apply("toCNAMERecordList", toCNAMERecordList(input.entries))

ClassifyDNS == Apply("newDNSAPIError", newDNSAPIError(input.status, input.body))

ClassifyCNAME == Apply("newCNAMEAPIError", newCNAMEAPIError(input.status, input.body))

EncodeCNAME == Apply("encodeCNAMERecord", encodeCNAMERecord(input.record))

\* The value Create puts in the path of its PUT (local_dns.go 136).
HostValue == Apply("dnsValue", dnsValue(input.IP, input.domain))

NextCodec ==
    \/ ParseDNS
    \/ ParseCNAME
    \/ DecodeDNSList
    \/ DecodeCNAMEList
    \/ ClassifyDNS
    \/ ClassifyCNAME
    \/ EncodeCNAME
    \/ HostValue

SpecCodec == InitCodec /\ [][NextCodec]_vars

(***************************************************************************)
(* The helpers of localCNAME (local_cname.go).                             *)
(***************************************************************************)
\* List, once the body is decoded (local_cname.go 118-123).
cnameListDecoded(r) ==
    IF r.err # Nil
    THEN [list |-> <<>>,
          err |-> Errorf("failed to parse custom CNAME list body: %w", <<>>, r.err)]
    ELSE r

cnameList(resp) ==
    IF resp.err THEN [list |-> <<>>, err |-> TransportError]
    ELSE IF ~resp.decodes
    THEN [list |-> <<>>,
          err |-> Errorf("failed to parse custom CNAME list body: %w", <<>>, DecodeError)]
    ELSE cnameListDecoded(toCNAMERecordList(resp.lines))

\* Get, once List has returned.
cnameGetFrom(l, domain) ==
    IF l.err # Nil
    THEN [rec |-> NoRecord,
          err |-> Errorf("failed to fetch custom CNAME records: %w", <<>>, l.err)]
    ELSE FirstMatch(l.list, domain, ErrorLocalCNAMENotFound)

cnameGet(resp, domain) == cnameGetFrom(cnameList(resp), domain)

\* A variant of Delete's value that rebuilds "Domain,Target" from the fields.
cnameDeleteValueRebuilt(record) ==
    escapeCNAMEValue(Join(<<record.Domain, record.Target>>, <<",">>))

\* The value Delete puts in the path (local_cname.go 175).
cnameDeleteValue(record) == encodeCNAMERecord(record)

(***************************************************************************)
(* Helper runs: a run exercises one of the two helpers, which share no     *)
(* state: localDNS only touches the hosts array, localCNAME only the       *)
(* cnameRecords array.  Each action is one whole helper call, with the     *)
(* responses of the appliance chosen among those it can give.              *)
(***************************************************************************)
Domains == {<<"a">>, <<"A">>, <<"b">>}

IPs == {<<"1">>}

StoredHostLines ==
    {<<"1", " ", "a">>,
     <<"2", " ", " ", "A", " ", "6", "0", " ", "#", "c">>,
     <<"7">>}

StoredTuples ==
    {<<"a", ",", "t">>,
     <<"A", " ", ",", " ", "u", " ", ",", " ", "6", "0">>,
     <<"a">>}

\* The records a caller submits: built by the caller (no raw tuple), or
\* handed back as the helper returned them earlier.
SubmittedRecords ==
    {CNAMERecord(<<"a">>, <<"t">>, 0, FALSE, <<>>),
     CNAMERecord(<<"A">>, <<"t">>, 60, TRUE, <<>>),
     CNAMERecord(<<"b">>, <<"t">>, 0 - 5, TRUE, <<>>),
     CNAMERecord(<<"b">>, <<" ", "t">>, 7, FALSE, <<>>),
     parseCNAMERecord(<<"A", " ", ",", " ", "u", " ", ",", " ", "6", "0">>).rec}

Distinct(store) == \A i, j \in 1..Len(store) : store[i] = store[j] => i = j

Init ==
    /\ input = [fn |-> "none"]
    /\ output = NoOutput
    /\ helper \in {"dns", "cname"}
    /\ hosts \in {h \in SeqsUpTo(StoredHostLines, MaxLines) :
                    Distinct(h) /\ (helper = "cname" => h = <<>>)}
    /\ cnameRecords \in {c \in SeqsUpTo(StoredTuples, MaxLines) :
                            Distinct(c) /\ (helper = "dns" => c = <<>>)}
    /\ call = NoCall
    /\ created = NoCreated
    /\ deleted = NoDeleted

ListCall(list, resp, r) ==
    [op |-> "List", reqs |-> <<Request("GET", list, <<>>)>>, resps |-> <<resp>>,
     list |-> r.list, err |-> r.err]

GetCall(list, domain, resp, r) ==
    [op |-> "Get", domain |-> domain, reqs |-> <<Request("GET", list, <<>>)>>,
     resps |-> <<resp>>, rec |-> r.rec, err |-> r.err]

\* Create, after its PUT: a transport failure, a status other than 201, or
\* the follow-up Get.
CreateCall(op, path, domain, value, put, get, resp, apiError) ==
    LET base == [op |-> op, domain |-> domain, value |-> value]
        putReq == Request("PUT", path, value)
    IN  IF put.err
        THEN base @@ [reqs |-> <<putReq>>, resps |-> <<put>>, rec |-> NoRecord,
                      err |-> TransportError]
        ELSE IF ~created201(put.status)
        THEN base @@ [reqs |-> <<putReq>>, resps |-> <<put>>, rec |-> NoRecord,
                      err |-> apiError]
        ELSE base @@ [reqs |-> <<putReq, Request("GET", path, <<>>)>>,
                      resps |-> <<put, resp>>, rec |-> get.rec, err |-> get.err]

\* Delete, when its lookup failed: no DELETE request.
DeleteLookupFailed(path, domain, resp, err) ==
    [op |-> "Delete", domain |-> domain, reqs |-> <<Request("GET", path, <<>>)>>,
     resps |-> <<resp>>, found |-> NoRecord, err |-> err]

\* A variant of Delete that takes every 2xx answer to its DELETE request
\* for success.
DeleteCallAny2xx(path, domain, resp, found, value, del, apiError) ==
    [op |-> "Delete", domain |-> domain,
     reqs |-> <<Request("GET", path, <<>>), Request("DELETE", path, value)>>,
     resps |-> <<resp, del>>, found |-> found,
     err |-> IF del.err THEN TransportError
             ELSE IF del.status < 200 \/ del.status >= 300 THEN apiError
             ELSE Nil]

\* Delete, after its DELETE request.
DeleteCall(path, domain, resp, found, value, del, apiError) ==
    [op |-> "Delete", domain |-> domain,
     reqs |-> <<Request("GET", path, <<>>), Request("DELETE", path, value)>>,
     resps |-> <<resp, del>>, found |-> found,
     err |-> IF del.err THEN TransportError
             ELSE IF del.status # StatusNoContent THEN apiError
             ELSE Nil]

Stored(store, put, value) ==
    IF ~put.err /\ put.status = StatusCreated THEN Append(store, Unescape(value)) ELSE store

Removed(store, del, value) ==
    IF ~del.err /\ del.status = StatusNoContent THEN Without(store, Unescape(value))
    ELSE store

\* What the Get that follows a Delete knows of it: the Delete's domain,
\* requests and responses, if it returned no error.
Deleted(c) ==
    IF c.err = Nil
    THEN [set |-> TRUE, domain |-> c.domain, reqs |-> c.reqs, resps |-> c.resps]
    ELSE NoDeleted

\* What the call that follows a create knows of it: the domain, the path
\* segment of the PUT and the line the appliance stored for it.
Created(put, domain, value, store) ==
    IF ~put.err /\ put.status = StatusCreated
    THEN [set |-> TRUE, domain |-> domain, seg |-> value, line |-> store[Len(store)]]
    ELSE NoCreated

DNSList ==
    /\ helper = "dns"
    /\ \E resp \in ListResponses(hosts) :
          call' = ListCall(HostsPath, resp, dnsList(resp))
    /\ created' = NoCreated
    /\ deleted' = NoDeleted
    /\ UNCHANGED <<input, output, helper, hosts, cnameRecords>>

DNSGet ==
    /\ helper = "dns"
    /\ \E domain \in Domains, resp \in ListResponses(hosts) :
          call' = GetCall(HostsPath, domain, resp, dnsGet(resp, domain))
    /\ created' = NoCreated
    /\ deleted' = IF call.op = "Delete" THEN Deleted(call) ELSE NoDeleted
    /\ UNCHANGED <<input, output, helper, hosts, cnameRecords>>

DNSCreate ==
    /\ helper = "dns"
    /\ \E domain \in Domains, IP \in IPs :
          \E value \in {dnsValue(IP, domain)} :
              \E put \in PutResponses(hosts, value) :
                /\ hosts' = Stored(hosts, put, value)
                /\ \E resp \in ListResponses(hosts') :
                   \E get \in {dnsGet(resp, domain)} :
                      /\ call' = CreateCall("Create", HostsPath, domain, value, put,
                                            get, resp, newDNSAPIError(put.status, put.body))
                                 @@ [IP |-> IP]
                      /\ created' = Created(put, domain, value, hosts')
    /\ deleted' = NoDeleted
    /\ UNCHANGED <<input, output, helper, cnameRecords>>

DNSDelete ==
    /\ helper = "dns"
    /\ \E domain \in Domains, resp \in ListResponses(hosts) :
          \E g \in {dnsGet(resp, domain)} :
              \/ /\ g.err # Nil
                 /\ call' = DeleteLookupFailed(HostsPath, domain, resp,
                                lookupError(g.err, ErrorLocalDNSNotFound,
                                    "failed looking up custom DNS record %s for deletion: %w",
                                    domain))
                 /\ hosts' = hosts
              \/ /\ g.err = Nil
                 /\ \E value \in {dnsValue(g.rec.IP, g.rec.Domain)} :
                    \E del \in DeleteResponses(hosts, value) :
                       /\ call' = DeleteCall(HostsPath, domain, resp, g.rec, value, del,
                                             newDNSAPIError(del.status, del.body))
                       /\ hosts' = Removed(hosts, del, value)
    /\ created' = IF call.op \in {"Create", "CreateRecord"} THEN created ELSE NoCreated
    /\ deleted' = NoDeleted
    /\ UNCHANGED <<input, output, helper, cnameRecords>>

CNAMEList ==
    /\ helper = "cname"
    /\ \E resp \in ListResponses(cnameRecords) :
          call' = ListCall(CNAMEPath, resp, cnameList(resp))
    /\ created' = NoCreated
    /\ deleted' = NoDeleted
    /\ UNCHANGED <<input, output, helper, hosts, cnameRecords>>

CNAMEGet ==
    /\ helper = "cname"
    /\ \E domain \in Domains, resp \in ListResponses(cnameRecords) :
          call' = GetCall(CNAMEPath, domain, resp, cnameGet(resp, domain))
    /\ created' = NoCreated
    /\ deleted' = IF call.op = "Delete" THEN Deleted(call) ELSE NoDeleted
    /\ UNCHANGED <<input, output, helper, hosts, cnameRecords>>

\* CreateRecord(record); Create(domain, target) is CreateRecord of the record
\* with only Domain and Target set.
CNAMECreateRecord ==
    /\ helper = "cname"
    /\ \E record \in SubmittedRecords, op \in {"Create", "CreateRecord"} :
          \E value \in {encodeCNAMERecord(record)} :
              /\ op = "Create" => record = CNAMERecord(record.Domain, record.Target, 0, FALSE, <<>>)
              /\ \E put \in PutResponses(cnameRecords, value) :
                    /\ cnameRecords' = Stored(cnameRecords, put, value)
                    /\ \E resp \in ListResponses(cnameRecords') :
                       \E get \in {cnameGet(resp, record.Domain)} :
                          /\ call' = CreateCall(op, CNAMEPath, record.Domain, value, put,
                                                get, resp,
                                                newCNAMEAPIError(put.status, put.body))
                                     @@ [record |-> record]
                          /\ created' = Created(put, record.Domain, value, cnameRecords')
    /\ deleted' = NoDeleted
    /\ UNCHANGED <<input, output, helper, hosts>>

CNAMEDelete ==
    /\ helper = "cname"
    /\ \E domain \in Domains, resp \in ListResponses(cnameRecords) :
          \E g \in {cnameGet(resp, domain)} :
              \/ /\ g.err # Nil
                 /\ call' = DeleteLookupFailed(CNAMEPath, domain, resp,
                                lookupError(g.err, ErrorLocalCNAMENotFound,
                                    "failed looking up CNAME record %s for deletion: %w",
                                    domain))
                 /\ cnameRecords' = cnameRecords
              \/ /\ g.err = Nil
                 /\ \E value \in {cnameDeleteValue(g.rec)} :
                    \E del \in DeleteResponses(cnameRecords, value) :
                       /\ call' = DeleteCall(CNAMEPath, domain, resp, g.rec, value, del,
                                             newCNAMEAPIError(del.status, del.body))
                       /\ cnameRecords' = Removed(cnameRecords, del, value)
    /\ created' = IF call.op \in {"Create", "CreateRecord"} THEN created ELSE NoCreated
    /\ deleted' = NoDeleted
    /\ UNCHANGED <<input, output, helper, hosts>>

Next ==
    \/ DNSList
    \/ DNSGet
    \/ DNSCreate
    \/ DNSDelete
    \/ CNAMEList
    \/ CNAMEGet
    \/ CNAMECreateRecord
    \/ CNAMEDelete

Spec == Init /\ [][Next]_vars

(***************************************************************************)
(* What the claims say about a line, stated on the characters of the line  *)
(* by position (no scanning loop): the text before and after the first     *)
(* '#', the white-space separated words, the comma separated fields, and   *)
(* the integers.                                                           *)
(***************************************************************************)
Least(I) == CHOOSE i \in I : \A j \in I : i <= j

Greatest(I) == CHOOSE i \in I : \A j \in I : j <= i

Positions(s, c) == {i \in 1..Len(s) : s[i] = c}

BeforeHash(s) ==
    IF Positions(s, "#") = {} THEN s ELSE SubSeq(s, 1, Least(Positions(s, "#")) - 1)

AfterHash(s) ==
    IF Positions(s, "#") = {} THEN <<>>
    ELSE SubSeq(s, Least(Positions(s, "#")) + 1, Len(s))

Blank(c) == c \in {" ", "\t", "\n", "\r"}

Inked(s) == {i \in 1..Len(s) : ~Blank(s[i])}

Stripped(s) ==
    IF Inked(s) = {} THEN <<>> ELSE SubSeq(s, Least(Inked(s)), Greatest(Inked(s)))

WordStarts(s) == {i \in Inked(s) : i = 1 \/ Blank(s[i - 1])}

WordEnds(s) == {i \in Inked(s) : i = Len(s) \/ Blank(s[i + 1])}

NumWords(s) == Cardinality(WordStarts(s))

Nth(I, n) == CHOOSE i \in I : Cardinality({j \in I : j < i}) = n - 1

Word(s, n) == SubSeq(s, Nth(WordStarts(s), n), Nth(WordEnds(s), n))

RECURSIVE WordsSpaced(_, _, _)
WordsSpaced(s, from, to) ==
    IF from > to THEN <<>>
    ELSE IF from = to THEN Word(s, to)
    ELSE Word(s, from) \o <<" ">> \o WordsSpaced(s, from + 1, to)

\* The hash-comment with more text appended to it, a space between them
\* when both are there.
Appended(hashComment, more) ==
    IF more = <<>> THEN hashComment
    ELSE IF hashComment = <<>> THEN more
    ELSE hashComment \o <<" ">> \o more

NumCommaFields(s) == Cardinality(Positions(s, ",")) + 1

CommaField(s, n) ==
    LET from == IF n = 1 THEN 1 ELSE Nth(Positions(s, ","), n - 1) + 1
        to   == IF n = NumCommaFields(s) THEN Len(s) ELSE Nth(Positions(s, ","), n) - 1
    IN  SubSeq(s, from, to)

DecimalDigits == {"0", "1", "2", "3", "4", "5", "6", "7", "8", "9"}

Unsigned(w) == IF w # <<>> /\ w[1] \in {"+", "-"} THEN Tail(w) ELSE w

IsInteger(w) ==
    /\ Unsigned(w) # <<>>
    /\ \A i \in 1..Len(Unsigned(w)) : Unsigned(w)[i] \in DecimalDigits

DigitValue(c) ==
    CASE c = "0" -> 0 [] c = "1" -> 1 [] c = "2" -> 2 [] c = "3" -> 3 [] c = "4" -> 4
      [] c = "5" -> 5 [] c = "6" -> 6 [] c = "7" -> 7 [] c = "8" -> 8 [] c = "9" -> 9

RECURSIVE Power10(_)
Power10(n) == IF n = 0 THEN 1 ELSE 10 * Power10(n - 1)

RECURSIVE PlaceSum(_, _)
PlaceSum(d, i) ==
    IF i > Len(d) THEN 0
    ELSE DigitValue(d[i]) * Power10(Len(d) - i) + PlaceSum(d, i + 1)

IntegerValue(w) ==
    IF w[1] = "-" THEN 0 - PlaceSum(Unsigned(w), 1) ELSE PlaceSum(Unsigned(w), 1)

Parsed(fn) == input.fn = fn /\ output.tag = "done"

\* C8: parsing an alias tuple succeeds exactly when splitting on ',' gives 2
\* or 3 fields and the third field, if present and non-empty after trimming,
\* is an integer; on success Domain and Target are the trimmed first and
\* second fields, and HasTTL holds, with TTL that integer, exactly when a
\* non-empty third field is present.  A non-numeric third field is an error.
C8_AliasTupleGrammar ==
    Parsed("parseCNAMERecord") =>
        LET raw    == input.raw
            n      == NumCommaFields(raw)
            third  == IF n = 3 THEN Stripped(CommaField(raw, 3)) ELSE <<>>
            wellFormed == n \in {2, 3} /\ (third # <<>> => IsInteger(third))
            r      == output.val
        IN  /\ (r.err = Nil) <=> wellFormed
            /\ wellFormed =>
                  /\ r.rec.Domain = Stripped(CommaField(raw, 1))
                  /\ r.rec.Target = Stripped(CommaField(raw, 2))
                  /\ r.rec.HasTTL <=> (third # <<>>)
                  /\ third # <<>> => r.rec.TTL = IntegerValue(third)

\* C8 witness: a three-field tuple with spaces around the commas and a
\* signed TTL has been parsed into a record with that TTL.
C8_Witness ==
    /\ Parsed("parseCNAMERecord")
    /\ output.val.err = Nil
    /\ output.val.rec.HasTTL
    /\ output.val.rec.TTL = 0 - 1
    /\ output.val.rec.Target = <<"b">>

\* C9: for a host line with at least three white-space separated fields
\* before the first '#': if the third field is an integer then HasTTL is
\* true, TTL is that integer and fields four onward, joined by single
\* spaces, are appended to the hash-comment; otherwise parsing still
\* succeeds with HasTTL false and fields three onward appended the same way.
C9_HostTTLOrComment ==
    Parsed("parseDNSRecord") =>
        LET s     == BeforeHash(input.raw)
            n     == NumWords(s)
            hc    == Stripped(AfterHash(input.raw))
            r     == output.val
        IN  n >= 3 =>
              /\ r.err = Nil
              /\ IF IsInteger(Word(s, 3))
                 THEN /\ r.rec.HasTTL
                      /\ r.rec.TTL = IntegerValue(Word(s, 3))
                      /\ r.rec.Comment = Appended(hc, WordsSpaced(s, 4, n))
                 ELSE /\ ~r.rec.HasTTL
                      /\ r.rec.Comment = Appended(hc, WordsSpaced(s, 3, n))

\* C9 witness: a line with a TTL, a fourth field and a hash-comment has been
\* parsed, and the comment holds both.
C9_Witness ==
    /\ Parsed("parseDNSRecord")
    /\ NumWords(BeforeHash(input.raw)) >= 4
    /\ output.val.rec.HasTTL
    /\ output.val.rec.TTL = 10
    /\ output.val.rec.Comment = <<"c", " ", " ", "d", "#", "e", " ", "a">>

\* C10: parsing a host line fails exactly when fewer than two white-space
\* separated fields remain before the first '#'; otherwise IP is the first
\* field and Domain the second, whatever white space separates them.
C10_HostLineFields ==
    Parsed("parseDNSRecord") =>
        LET s == BeforeHash(input.raw)
            r == output.val
        IN  /\ (r.err # Nil) <=> NumWords(s) < 2
            /\ NumWords(s) >= 2 =>
                  /\ r.rec.IP = Word(s, 1)
                  /\ r.rec.Domain = Word(s, 2)

\* C10 witness: a line whose fields are separated by a tab or by several
\* spaces has been parsed into its IP and Domain.
C10_Witness ==
    /\ Parsed("parseDNSRecord")
    /\ output.val.err = Nil
    /\ output.val.rec.IP = <<"1", "0">>
    /\ output.val.rec.Domain = <<"a">>
    /\ \E i \in 1..Len(input.raw) - 1 : Blank(input.raw[i]) /\ Blank(input.raw[i + 1])

\* C7: list decoding is all-or-nothing: if a line of the collection fails to
\* parse, the result is the error of the first failing line and no records;
\* if every line parses, the result has one record per line, in order.
C7_ListAllOrNothing ==
    /\ Parsed("toDNSRecordList") =>
        LET e   == input.entries
            bad == {i \in 1..Len(e) : parseDNSRecord(e[i]).err # Nil}
        IN  IF bad # {}
            THEN /\ output.val.err = parseDNSRecord(e[Least(bad)]).err
                 /\ output.val.list = <<>>
            ELSE /\ output.val.err = Nil
                 /\ Len(output.val.list) = Len(e)
                 /\ \A i \in 1..Len(e) : output.val.list[i] = parseDNSRecord(e[i]).rec
    /\ Parsed("toCNAMERecordList") =>
        LET e   == input.entries
            bad == {i \in 1..Len(e) : parseCNAMERecord(e[i]).err # Nil}
        IN  IF bad # {}
            THEN /\ output.val.err = parseCNAMERecord(e[Least(bad)]).err
                 /\ output.val.list = <<>>
            ELSE /\ output.val.err = Nil
                 /\ Len(output.val.list) = Len(e)
                 /\ \A i \in 1..Len(e) : output.val.list[i] = parseCNAMERecord(e[i]).rec

\* C7 witness: a collection whose first line parses and whose second and
\* third lines fail in different ways has been decoded to the second line's
\* error and no records.
C7_Witness ==
    /\ Parsed("toDNSRecordList")
    /\ Len(input.entries) = 3
    /\ parseDNSRecord(input.entries[1]).err = Nil
    /\ parseDNSRecord(input.entries[2]).err # Nil
    /\ parseDNSRecord(input.entries[3]).err # Nil
    /\ input.entries[2] # input.entries[3]
    /\ output.val.err = parseDNSRecord(input.entries[2]).err
    /\ output.val.list = <<>>

\* C4: the classifier returns the typed error of its resource (DNSAPIError
\* for host operations, CNAMEAPIError for alias operations) exactly when the
\* body is non-empty, decodes into the envelope and holds a non-null error
\* object, and then StatusCode, Key, Message and Hint are the status and the
\* object's fields; in every other case it returns a non-nil generic error
\* that carries the status code and the raw body and no Key or Message.
C4_ErrorClassification ==
    \A fn \in {"newDNSAPIError", "newCNAMEAPIError"} :
        Parsed(fn) =>
            LET e == output.val
            IN  IF input.holds.present
                THEN e = [type |-> IF fn = "newDNSAPIError" THEN "DNSAPIError"
                                   ELSE "CNAMEAPIError",
                          StatusCode |-> input.status,
                          Key |-> input.holds.Key,
                          Message |-> input.holds.Message,
                          Hint |-> input.holds.Hint]
                ELSE /\ e # Nil
                     /\ e.type = "status"
                     /\ DOMAIN e = {"type", "format", "StatusCode", "body"}
                     /\ e.StatusCode = input.status
                     /\ e.body = input.body

\* C4 witness: a 400 response whose envelope holds key "bad_request" and
\* message "duplicate" has been classified as a DNSAPIError with them.
C4_Witness ==
    /\ Parsed("newDNSAPIError")
    /\ input.status = 400
    /\ output.val.type = "DNSAPIError"
    /\ output.val.StatusCode = 400
    /\ output.val.Key = "bad_request"
    /\ output.val.Message = "duplicate"
    /\ output.val.Hint = JNull

\* Characters that may not stand as themselves in a path segment.
Unsafe == {" ", "\t", "\n", "\r", "!", "#", ",", "/", ";", "?"}

\* Every '%' of the segment starts the escape of one character.
EscapesOnly(seg) ==
    \A i \in Positions(seg, "%") :
        /\ i + 2 <= Len(seg)
        /\ \E c \in Escapable : HexByte(c) = <<seg[i + 1], seg[i + 2]>>

\* C11 as the claim states it: for a host line without TTL and comment, the
\* path segment derived from the parsed record decodes to a line whose
\* first and second fields are the record's IP and Domain.
C11_HostRoundTrip ==
    (/\ Parsed("parseDNSRecord")
     /\ output.val.err = Nil
     /\ ~output.val.rec.HasTTL
     /\ output.val.rec.Comment = <<>>) =>
        LET line == Unescape(dnsValue(output.val.rec.IP, output.val.rec.Domain))
            s    == BeforeHash(line)
        IN  /\ NumWords(s) >= 2
            /\ Word(s, 1) = output.val.rec.IP
            /\ Word(s, 2) = output.val.rec.Domain

\* C14 as the claim states it: the alias encoder's output decodes to the raw
\* tuple whenever the record carries one, and otherwise to Domain,Target
\* with ,TTL appended exactly when HasTTL is set; the output holds no
\* literal ',' and no literal space.
C14_AliasEncoder ==
    Parsed("encodeCNAMERecord") =>
        LET r      == input.record
            text   == Unescape(output.val)
            prefix == r.Domain \o <<",">> \o r.Target
            ttl    == SubSeq(text, Len(prefix) + 2, Len(text))
        IN  /\ Positions(output.val, ",") = {}
            /\ Positions(output.val, " ") = {}
            /\ EscapesOnly(output.val)
            /\ IF r.raw # <<>> THEN text = r.raw
               ELSE IF ~r.HasTTL THEN text = prefix
               ELSE /\ Len(text) > Len(prefix) + 1
                    /\ SubSeq(text, 1, Len(prefix) + 1) = prefix \o <<",">>
                    /\ IsInteger(ttl)
                    /\ IntegerValue(ttl) = r.TTL

\* C15 as the claim states it: the path segment of the host PUT is the
\* percent-escaped text "IP Domain": it decodes to that text, every space
\* and every other character not allowed in a path segment is escaped, and
\* nothing else is sent.
C15_HostPutSegment ==
    Parsed("dnsValue") =>
        /\ Unescape(output.val) = input.IP \o <<" ">> \o input.domain
        /\ \A i \in 1..Len(output.val) : output.val[i] \notin Unsafe
        /\ EscapesOnly(output.val)

(***************************************************************************)
(* What the claims say about a call of a helper, stated on the lines the   *)
(* appliance listed: which lines are records, the domain each one names,   *)
(* and which of them name the requested domain when letter case is         *)
(* ignored.                                                                *)
(***************************************************************************)
LetterPairs ==
    {<<"a", "A">>, <<"b", "B">>, <<"c", "C">>, <<"d", "D">>, <<"e", "E">>,
     <<"f", "F">>, <<"g", "G">>, <<"h", "H">>, <<"i", "I">>, <<"j", "J">>,
     <<"k", "K">>, <<"l", "L">>, <<"m", "M">>, <<"n", "N">>, <<"o", "O">>,
     <<"p", "P">>, <<"q", "Q">>, <<"r", "R">>, <<"s", "S">>, <<"t", "T">>,
     <<"u", "U">>, <<"v", "V">>, <<"w", "W">>, <<"x", "X">>, <<"y", "Y">>,
     <<"z", "Z">>}

SameLetter(c, d) == c = d \/ <<c, d>> \in LetterPairs \/ <<d, c>> \in LetterPairs

SameName(a, b) == Len(a) = Len(b) /\ \A i \in 1..Len(a) : SameLetter(a[i], b[i])

IsHostLine(line) == NumWords(BeforeHash(line)) >= 2

IsAliasTuple(line) ==
    /\ NumCommaFields(line) \in {2, 3}
    /\ NumCommaFields(line) = 3 =>
          \/ Stripped(CommaField(line, 3)) = <<>>
          \/ IsInteger(Stripped(CommaField(line, 3)))

IsRecord(line) == IF helper = "dns" THEN IsHostLine(line) ELSE IsAliasTuple(line)

DomainOf(line) ==
    IF helper = "dns" THEN Word(BeforeHash(line), 2) ELSE Stripped(CommaField(line, 1))

\* The raw text a record keeps of its line.
RawOf(line) == IF helper = "dns" THEN line ELSE Stripped(line)

NotFoundOf == IF helper = "dns" THEN ErrorLocalDNSNotFound ELSE ErrorLocalCNAMENotFound

PathOf == IF helper = "dns" THEN HostsPath ELSE CNAMEPath

\* The list fetch was answered with a collection all of whose lines are
\* records.
Listed(resp) ==
    /\ ~resp.err
    /\ resp.decodes
    /\ \A i \in 1..Len(resp.lines) : IsRecord(resp.lines[i])

\* The places of the listed lines that name the domain, letter case ignored.
Naming(resp, domain) ==
    {i \in 1..Len(resp.lines) : SameName(DomainOf(resp.lines[i]), domain)}

\* C1: for host and alias records alike, Delete(domain) on a collection in
\* which no record's Domain equals the domain, letter case ignored, returns
\* no error and makes no DELETE request: its only request is the list fetch.
C1_IdempotentDelete ==
    (/\ call.op = "Delete"
     /\ Listed(call.resps[1])
     /\ Naming(call.resps[1], call.domain) = {})
        => /\ call.err = Nil
           /\ call.reqs = <<Request("GET", PathOf, <<>>)>>

\* C1 witness: a Delete of a domain that none of the two listed records
\* names has returned no error after the list fetch alone.
C1_Witness ==
    /\ call.op = "Delete"
    /\ Listed(call.resps[1])
    /\ Len(call.resps[1].lines) = 2
    /\ Naming(call.resps[1], call.domain) = {}
    /\ call.err = Nil
    /\ Len(call.reqs) = 1

\* What Get(domain) answers on a list fetch: if the fetch gave no collection
\* of records, an error and no record; else the first listed record naming
\* the domain, or no record and the NotFound error carrying the domain.
AnswersGet(resp, domain, rec, err) ==
    IF ~Listed(resp) THEN rec = NoRecord /\ err # Nil
    ELSE IF Naming(resp, domain) = {}
    THEN /\ rec = NoRecord
         /\ err = [type |-> "fmt", format |-> "%w: %s", arg |-> domain,
                   wraps |-> NotFoundOf]
    ELSE /\ err = Nil
         /\ rec.raw = RawOf(resp.lines[Least(Naming(resp, domain))])
         /\ rec.Domain = DomainOf(resp.lines[Least(Naming(resp, domain))])

\* C6: Get(domain) returns the first record, in list order, whose Domain
\* equals the domain when letter case is ignored; if no record matches it
\* returns no record and the NotFound error carrying the requested domain.
C6_GetFirstMatch ==
    call.op = "Get" => AnswersGet(call.resps[1], call.domain, call.rec, call.err)

\* C6 witness: of two listed records naming the domain, Get has returned the
\* first, whose Domain differs from the requested one in letter case.
C6_Witness ==
    /\ call.op = "Get"
    /\ Listed(call.resps[1])
    /\ Cardinality(Naming(call.resps[1], call.domain)) = 2
    /\ call.err = Nil
    /\ call.rec.Domain # call.domain
    /\ call.rec.raw = RawOf(call.resps[1].lines[1])

\* C5: Create (host and alias) makes exactly one PUT; on a status other than
\* 201, other 2xx included, it returns the classified error and makes no
\* list fetch; on 201 it makes exactly one list fetch after the PUT and
\* returns what Get(domain) answers on it.
C5_CreateOnePut ==
    call.op \in {"Create", "CreateRecord"} =>
        LET put == call.resps[1]
        IN  /\ call.reqs[1] = Request("PUT", PathOf, call.value)
            /\ Cardinality({i \in 1..Len(call.reqs) : call.reqs[i].method = "PUT"}) = 1
            /\ (~put.err /\ put.status # StatusCreated) =>
                  /\ Len(call.reqs) = 1
                  /\ call.rec = NoRecord
                  /\ call.err = IF helper = "dns"
                                THEN newDNSAPIError(put.status, put.body)
                                ELSE newCNAMEAPIError(put.status, put.body)
            /\ (~put.err /\ put.status = StatusCreated) =>
                  /\ call.reqs = <<Request("PUT", PathOf, call.value),
                                   Request("GET", PathOf, <<>>)>>
                  /\ AnswersGet(call.resps[2], call.domain, call.rec, call.err)

\* C5 witness: a Create answered 201 has made its PUT and then one list
\* fetch, and returned the record the list holds for the domain.
C5_Witness ==
    /\ call.op \in {"Create", "CreateRecord"}
    /\ call.resps[1].status = StatusCreated
    /\ Len(call.reqs) = 2
    /\ Listed(call.resps[2])
    /\ call.err = Nil
    /\ call.rec.raw = RawOf(Unescape(call.value))

\* C2 as the claim states it: after an alias create that the appliance
\* stored as submitted, a following Delete of the same domain makes its
\* DELETE request against the path segment of the PUT.
C2_DeleteUsesCreatedSegment ==
    (/\ helper = "cname"
     /\ call.op = "Delete"
     /\ created.set
     /\ created.line = Unescape(created.seg)
     /\ call.domain = created.domain
     /\ Len(call.reqs) = 2)
        => call.reqs[2] = Request("DELETE", CNAMEPath, created.seg)

\* C2, amended: after an alias create that the appliance stored as
\* submitted, a following Delete of the same domain whose lookup finds the
\* created record (no record listed before it names the domain, letter case
\* ignored) makes its DELETE request against the path segment of the PUT.
C2_ExactMatchDelete ==
    (/\ helper = "cname"
     /\ call.op = "Delete"
     /\ created.set
     /\ created.line = Unescape(created.seg)
     /\ call.domain = created.domain
     /\ Len(call.reqs) = 2
     /\ call.resps[1].lines[Least(Naming(call.resps[1], call.domain))] = created.line)
        => call.reqs[2] = Request("DELETE", CNAMEPath, created.seg)

\* C2 witness: an alias with a TTL was created next to another record, and
\* the Delete that followed was made against the segment of the PUT.
C2_Witness ==
    /\ helper = "cname"
    /\ call.op = "Delete"
    /\ created.set
    /\ call.domain = created.domain
    /\ Len(call.reqs) = 2
    /\ Len(call.resps[1].lines) = 2
    /\ call.resps[1].lines[2] = created.line
    /\ NumCommaFields(created.line) = 3
    /\ call.reqs[2].seg = created.seg

\* C3 as the claim states it: when Delete(domain) finds a host record, the
\* DELETE request is keyed by the percent-escaped raw line of that record,
\* TTL, comment and spacing included.
C3_DeleteKeyedByRawLine ==
    (helper = "dns" /\ call.op = "Delete" /\ Len(call.reqs) = 2) =>
        call.reqs[2].seg =
            PathEscape(call.resps[1].lines[Least(Naming(call.resps[1], call.domain))])

\* The error at the end of a chain of wrapped errors.
RECURSIVE Root(_)
Root(err) == IF err.type = "fmt" /\ err.wraps # Nil THEN Root(err.wraps) ELSE err

\* The first listed line that is no record.
FirstBad(resp) == resp.lines[Least({i \in 1..Len(resp.lines) : ~IsRecord(resp.lines[i])})]

\* The error names the failure of the list fetch: the transport's error, the
\* decoder's error, or the parse error of the first malformed line.
NamesFailure(err, resp) ==
    IF resp.err THEN Root(err) = TransportError
    ELSE IF ~resp.decodes THEN Root(err) = DecodeError
    ELSE \/ Root(err).type = "fmt" /\ Root(err).arg = FirstBad(resp)
         \/ /\ Root(err).type = "strconv"
            /\ Root(err).num = Stripped(CommaField(FirstBad(resp), 3))

\* C16: when the lookup inside Delete fails for another reason than
\* not-found (a transport failure, an undecodable body, a malformed line in
\* the list), Delete returns an error that still names that failure and
\* makes no DELETE request; and a transport failure of the DELETE request
\* itself is returned to the caller, never reported as success.
C16_DeleteReportsFailures ==
    call.op = "Delete" =>
        /\ ~Listed(call.resps[1]) =>
              /\ call.reqs = <<Request("GET", PathOf, <<>>)>>
              /\ call.err # Nil
              /\ ~Is(call.err, NotFoundOf)
              /\ NamesFailure(call.err, call.resps[1])
        /\ (Len(call.reqs) = 2 /\ call.resps[2].err) => call.err = TransportError

\* C16 witness: a Delete whose list fetch held a malformed line after a
\* record naming the domain has returned the parse error of that line
\* without a DELETE request.
C16_Witness ==
    /\ call.op = "Delete"
    /\ call.resps[1].decodes
    /\ Len(call.resps[1].lines) = 2
    /\ IsRecord(call.resps[1].lines[1])
    /\ SameName(DomainOf(call.resps[1].lines[1]), call.domain)
    /\ ~IsRecord(call.resps[1].lines[2])
    /\ Len(call.reqs) = 1
    /\ Root(call.err).arg = call.resps[1].lines[2]

\* The one line the Delete's list fetch held for the domain, if the Delete
\* made a DELETE request, is the line that request names.
NamesFound(d) ==
    Len(d.reqs) = 2 =>
        Unescape(d.reqs[2].seg) = d.resps[1].lines[Least(Naming(d.resps[1], d.domain))]

\* Get(domain) answered NotFound on a collection it could list.
AnswersNotFound ==
    /\ call.rec = NoRecord
    /\ call.err = [type |-> "fmt", format |-> "%w: %s", arg |-> call.domain,
                   wraps |-> NotFoundOf]

CarriesRequested ==
    IF helper = "dns"
    THEN /\ call.rec.Domain = call.domain
         /\ call.rec.IP = call.IP
    ELSE /\ call.rec.Domain = call.record.Domain
         /\ call.rec.Target = call.record.Target
         /\ call.rec.HasTTL = call.record.HasTTL
         /\ call.rec.TTL = call.record.TTL

\* The arguments of the Create are plain: IP and domain are single words;
\* the alias record's Domain and Target hold no comma and no surrounding
\* white space, its TTL is 0 unless HasTTL is set, and a raw tuple it
\* carries is the one its Domain and Target were parsed from.
PlainArguments ==
    IF helper = "dns"
    THEN /\ NumWords(call.IP) = 1
         /\ NumWords(call.domain) = 1
    ELSE LET r == call.record
         IN  /\ r.Domain = Stripped(r.Domain) /\ Positions(r.Domain, ",") = {}
             /\ r.Target = Stripped(r.Target) /\ Positions(r.Target, ",") = {}
             /\ ~r.HasTTL => r.TTL = 0
             /\ r.raw # <<>> =>
                   /\ r.Domain = Stripped(CommaField(r.raw, 1))
                   /\ r.Target = Stripped(CommaField(r.raw, 2))

\* The line stored for the Create is the first listed line naming the
\* domain, and holds the text that was submitted.
ReturnsStoredLine ==
    /\ created.set
    /\ created.line = Unescape(created.seg)
    /\ helper = "dns" => created.line = call.IP \o <<" ">> \o call.domain
    /\ call.resps[2].lines[Least(Naming(call.resps[2], call.domain))] = created.line

====
